---- MODULE Spec2Model ----
(***************************************************************************)
(* A model of the StringSwitch typestate builder                           *)
(* (src/src/include/stringswitch/stringswitch_impl.h).                     *)
(*                                                                         *)
(* The static type tags ParamBoundTag<b> and DefaultBoundTag<b> are kept   *)
(* as the fields param_given and default_given of each builder object, and *)
(* a member that exists only on some instantiations (a requires clause, or *)
(* a member that only one specialization has) is an action whose guard     *)
(* reads those fields.                                                     *)
(*                                                                         *)
(* heap   : the builder objects made so far, in order of construction;     *)
(*          an object is named by its index.  Accumulator::when mutates    *)
(*          its receiver in place, every other builder call constructs a   *)
(*          new object and leaves its receiver as it was.  The builders    *)
(*          are values: the implicit copy and move constructors make a new *)
(*          object from an existing one, the implicit assignment operators *)
(*          replace the members of an existing object, and a move leaves   *)
(*          its source emptied.                                            *)
(* chain  : history variable; chain[i] is the call chain that produced     *)
(*          the value heap[i] holds: the create call, then every           *)
(*          when/on_default applied on the way to it (and to it, in        *)
(*          place), and a mark wherever the object holding it was moved    *)
(*          from.  A copy or an assignment carries the chain of its source.*)
(* last   : the last call made: its name, receiver, arguments and return.  *)
(* ncalls : the number of calls (create, when, on_default, evaluate),      *)
(*          copies, moves and assignments made so far.                     *)
(* trace  : history variable of the specification SpecEval: the evaluate   *)
(*          calls made so far, in order (empty throughout Spec).           *)
(* threads: the threads of the specification SpecConc, each with the       *)
(*          position of its evaluate call and the call's locals (empty     *)
(*          throughout Spec and SpecEval).                                 *)
(***************************************************************************)
EXTENDS Integers, Sequences, FiniteSets

VARIABLES heap, chain, last, ncalls, trace, threads

vars == <<heap, chain, last, ncalls, trace, threads>>

\* ------------------------------------------------------------------ bounds
\* The most calls (create, when, on_default, evaluate), copies, moves and
\* assignments the calling program makes.
MaxCalls == 4
\* The most evaluate calls recorded in trace (specification SpecEval).
MaxEvals == 2
\* The most builder objects the calling program constructs.
MaxObjs == 3
\* The most calls in the chain of the builder that threads evaluate, and the
\* number of threads (specification SpecConc).
MaxConcCalls == 3
NThreads == 2

\* The strings used as labels and parameters (the empty string included: it
\* is what a value-initialised std::string holds).
Strs == {"", "a", "b"}
\* The Result values.
Results == {0, 1}

\* ------------------------------------------------------- storage and values
\* class Empty {}: the storage of a parameter or default that is not given.
\* It is no member of Strs or Results.
Empty == "<Empty>"

\* std::nullopt of std::optional<Result>.
nullopt == [has_value |-> FALSE]

\* A std::optional<Result> holding r (the implicit conversion of
\* `return it->second` when EffectiveResultType is optional).
optional(r) == [has_value |-> TRUE, value |-> r]

\* MapStorage{}: the empty unordered_map.
EmptyMap == << >>

\* unordered_map::find: whether the key is present.
find(m, k) == k \in DOMAIN m

\* Mutant: the insertion overwrites the value of a key that is present
\* (insert_or_assign).
emplace_overwrites(m, k, v) ==
  [x \in (DOMAIN m) \cup {k} |-> IF x = k THEN v ELSE m[x]]

\* unordered_map::emplace: inserts only when the key is not present.
emplace(m, k, v) ==
  IF k \in DOMAIN m
    THEN m
    ELSE [x \in (DOMAIN m) \cup {k} |-> IF x = k THEN v ELSE m[x]]

\* ParamStorage{}: std::string{} when param_given, Empty{} otherwise.
ParamStorageInit(param_given) == IF param_given THEN "" ELSE Empty

\* OutcomeStorage{}: Empty{} (only used with default_given = false).
OutcomeStorageInit == Empty

\* ------------------------------------------------------------ constructors
\* The private constructor of the accumulator, with the type tags of the
\* instantiation being constructed.
StringSwitchImpl(param_given, default_given, mapping_args, param, outcome) ==
  [kind              |-> "Accumulator",
   param_given       |-> param_given,
   default_given     |-> default_given,
   d_mapping         |-> mapping_args,
   d_param           |-> param,
   d_default_outcome |-> outcome]

\* The private constructors of the parameter-bound intermediate.
Intermediate(param_given, param) ==
  [kind        |-> "Intermediate",
   param_given |-> param_given,
   d_param     |-> param]

\* StringSwitchImpl<Result>::create(param)
create_param(param) == Intermediate(TRUE, param)

\* Mutant: create() returns an accumulator with an empty mapping, so that
\* evaluate is a member of what it returns.
create_noparam_accumulator ==
  [kind              |-> "Accumulator",
   param_given       |-> FALSE,
   default_given     |-> FALSE,
   d_mapping         |-> << >>,
   d_param           |-> "<Empty>",
   d_default_outcome |-> "<Empty>"]

\* StringSwitchImpl<Result>::create()
create_noparam == Intermediate(FALSE, Empty)

\* ------------------------------------------- intermediate: when, on_default
\* Mutant: the parameter is value-initialised instead of carried forward,
\* `return {{{std::string(label), std::move(result)}}, {}, {}}`.
Intermediate_when_drops_param(self, label, result) ==
  StringSwitchImpl(self.param_given, FALSE,
                   emplace(EmptyMap, label, result),
                   ParamStorageInit(self.param_given), OutcomeStorageInit)

\* return {{{std::string(label), std::move(result)}}, d_param, {}};
Intermediate_when(self, label, result) ==
  StringSwitchImpl(self.param_given, FALSE,
                   emplace(EmptyMap, label, result), self.d_param,
                   OutcomeStorageInit)

\* Mutant: the default is value-initialised too, `return {{}, {}, {}}`.
Intermediate_on_default_drops_result(self, result) ==
  StringSwitchImpl(self.param_given, TRUE,
                   EmptyMap, ParamStorageInit(self.param_given), 0)

\* return {{}, {}, result};
Intermediate_on_default(self, result) ==
  StringSwitchImpl(self.param_given, TRUE,
                   EmptyMap, ParamStorageInit(self.param_given), result)

\* -------------------------------------------- accumulator: when, on_default
\* Mutant: the case is inserted into a copy of the builder, which is
\* returned by value; the receiver is left as it was.
when_mutates_copy(self, label, result) == self

\* Mutant: the mapping is assigned instead of grown,
\* `this->d_mapping = {{std::string(label), result}}`.
when_replaces_mapping(self, label, result) ==
  [self EXCEPT !.d_mapping = emplace(EmptyMap, label, result)]

\* this->d_mapping.emplace(std::make_pair(label, result)); return *this;
when(self, label, result) ==
  [self EXCEPT !.d_mapping = emplace(@, label, result)]

\* Mutant: on_default without its requires clause.
on_default_requires_nothing(self) == TRUE

\* requires(!default_given)
on_default_requires(self) == ~self.default_given

\* Mutant: the parameter is value-initialised instead of copied,
\* `return SelfWithDefault<true>{d_mapping, {}, default_result}`.
on_default_drops_param(self, default_result) ==
  StringSwitchImpl(self.param_given, TRUE,
                   self.d_mapping, ParamStorageInit(self.param_given),
                   default_result)

\* return SelfWithDefault<true>{d_mapping, d_param, default_result};
on_default(self, default_result) ==
  StringSwitchImpl(self.param_given, TRUE,
                   self.d_mapping, self.d_param, default_result)

\* Mutant: the mapping is moved into the new builder,
\* `SelfWithDefault<true>{std::move(d_mapping), d_param, default_result}`,
\* which leaves the receiver's mapping empty.
on_default_self_moved_from(self, default_result) ==
  [self EXCEPT !.d_mapping = EmptyMap]

\* The receiver after on_default: d_mapping and d_param are copied into
\* the constructor's by-value parameters, the receiver keeps them.
on_default_self(self, default_result) == self

\* ------------------------------------------ the implicit special members
\* Two builders are objects of one class: the same specialization with the
\* same type tags.  Only such builders can be copied, moved or assigned to
\* one another.
same_class(a, b) ==
  /\ a.kind = b.kind
  /\ a.param_given = b.param_given
  /\ a.kind = "Accumulator" => a.default_given = b.default_given

\* The implicit copy constructor and copy assignment operator: the object
\* constructed or assigned to holds a copy of every member of other.
copy(other) == other

\* The implicit move constructor and move assignment operator: the object
\* constructed or assigned to holds every member of other.
move(other) == other

\* The source of a move into another object: its std::unordered_map and its
\* std::string are left empty; an Empty and a Result (an enumeration or an
\* integer) are left as they were.
moved_from(other) ==
  IF other.kind = "Accumulator"
    THEN [other EXCEPT !.d_mapping = EmptyMap,
                       !.d_param = ParamStorageInit(other.param_given)]
    ELSE [other EXCEPT !.d_param = ParamStorageInit(other.param_given)]

\* x = std::move(x): the std::string is left empty, the std::unordered_map
\* as it was.
self_move_assigned(self) ==
  [self EXCEPT !.d_param = ParamStorageInit(self.param_given)]

\* ------------------------------------------------------------- evaluation
\* Mutant: the default is returned before the mapping is searched.
evaluate_impl_default_first(self, param) ==
  [ret  |-> IF self.default_given
              THEN self.d_default_outcome
              ELSE IF find(self.d_mapping, param)
                     THEN optional(self.d_mapping[param])
                     ELSE nullopt,
   self |-> self]

\* Mutant: a matched result is moved out of the mapping, which loses the
\* entry.
evaluate_impl_moves_out(self, param) ==
  [ret  |-> IF find(self.d_mapping, param)
              THEN IF self.default_given
                     THEN self.d_mapping[param]
                     ELSE optional(self.d_mapping[param])
              ELSE IF self.default_given
                     THEN self.d_default_outcome
                     ELSE nullopt,
   self |-> [self EXCEPT !.d_mapping =
               [x \in (DOMAIN @) \ {param} |-> @[x]]]]

\* evaluate_impl is const: ret is what it returns, self the receiver after
\* the call.
evaluate_impl(self, param) ==
  [ret  |-> IF find(self.d_mapping, param)
              THEN IF self.default_given
                     THEN self.d_mapping[param]
                     ELSE optional(self.d_mapping[param])
              ELSE IF self.default_given
                     THEN self.d_default_outcome
                     ELSE nullopt,
   self |-> self]

\* evaluate(std::string_view param) const requires(!param_given)
evaluate_param_requires(self) ==
  self.kind = "Accumulator" /\ ~self.param_given

evaluate_param(self, param) == evaluate_impl(self, param)

\* Mutant: evaluate() without its requires clause.
evaluate_requires_nothing(self) == self.kind = "Accumulator"

\* evaluate() const requires(param_given)
evaluate_requires(self) ==
  self.kind = "Accumulator" /\ self.param_given

evaluate(self) == evaluate_impl(self, self.d_param)

\* ------------------------------------- evaluate_impl, one access at a time
\* An iterator into d_mapping: the key of the node it points to, and
\* whether that node is still a node of the mapping.  d_mapping.end() is the
\* iterator of a key that was not found.
End == [key |-> "<end>", valid |-> TRUE]

\* auto it = d_mapping.find(param);
evaluate_impl_find(self, param) ==
  IF find(self.d_mapping, param)
    THEN [key |-> param, valid |-> TRUE]
    ELSE End

\* What an iterator taken earlier is once the mapping was assigned to
\* (operator=, copying or moving), moved from or rehashed: its node is
\* freed or belongs to another entry, also when the mapping holds the same
\* key again.
invalidated(it) == [it EXCEPT !.valid = FALSE]

\* Mutant: a matched result is moved out of the mapping, which loses the
\* entry.
evaluate_impl_return_moves_out(self, it) ==
  [rets |-> IF it.key # End.key
              THEN {IF self.default_given THEN r ELSE optional(r) :
                      r \in IF it.valid /\ it.key \in DOMAIN self.d_mapping
                              THEN {self.d_mapping[it.key]}
                              ELSE Results}
              ELSE {IF self.default_given THEN self.d_default_outcome
                                          ELSE nullopt},
   self |-> [self EXCEPT
               !.d_mapping = [x \in (DOMAIN @) \ {it.key} |-> @[x]]]]

\* if (it != d_mapping.end()) return it->second; else the default or
\* std::nullopt.  rets is what the statement may return, self the receiver
\* after it.  Reading through an iterator that was invalidated, or whose
\* entry is gone, is undefined: the read yields any result.
evaluate_impl_return(self, it) ==
  [rets |-> IF it.key # End.key
              THEN {IF self.default_given THEN r ELSE optional(r) :
                      r \in IF it.valid /\ it.key \in DOMAIN self.d_mapping
                              THEN {self.d_mapping[it.key]}
                              ELSE Results}
              ELSE {IF self.default_given THEN self.d_default_outcome
                                          ELSE nullopt},
   self |-> self]

\* ------------------------------------------------------- history of calls
CreateCall(has_param, param) ==
  [op |-> "create", has_param |-> has_param, param |-> param]

WhenCall(label, result) == [op |-> "when", label |-> label, result |-> result]

OnDefaultCall(result) == [op |-> "on_default", result |-> result]

\* The marks of chain: the object was the source of a move into another
\* object / was move-assigned to itself.
MoveCall == [op |-> "move"]

SelfMoveCall == [op |-> "self_move"]

NoCall == [op |-> "none"]

Objs == 1..Len(heap)

\* --------------------------------------------------------------- actions
Init ==
  /\ heap = << >>
  /\ chain = << >>
  /\ last = NoCall
  /\ ncalls = 0
  /\ trace = << >>
  /\ threads = << >>

\* StringSwitch<R>::create()
Create ==
  /\ ncalls < MaxCalls
  /\ Len(heap) < MaxObjs
  /\ heap' = Append(heap, create_noparam)
  /\ chain' = Append(chain, <<CreateCall(FALSE, Empty)>>)
  /\ last' = [op |-> "create", new |-> Len(heap) + 1]
  /\ ncalls' = ncalls + 1
  /\ UNCHANGED <<trace, threads>>

\* StringSwitch<R>::create(param)
CreateParam ==
  \E param \in Strs :
    /\ ncalls < MaxCalls
    /\ Len(heap) < MaxObjs
    /\ heap' = Append(heap, create_param(param))
    /\ chain' = Append(chain, <<CreateCall(TRUE, param)>>)
    /\ last' = [op |-> "create", new |-> Len(heap) + 1]
    /\ ncalls' = ncalls + 1
    /\ UNCHANGED <<trace, threads>>

\* heap[i].when(label, result) on an intermediate: a new accumulator.
IntermediateWhen ==
  \E i \in Objs, label \in Strs, result \in Results :
    /\ heap[i].kind = "Intermediate"
    /\ ncalls < MaxCalls
    /\ Len(heap) < MaxObjs
    /\ heap' = Append(heap, Intermediate_when(heap[i], label, result))
    /\ chain' = Append(chain, Append(chain[i], WhenCall(label, result)))
    /\ last' = [op |-> "when", recv |-> i, label |-> label,
                result |-> result, new |-> Len(heap) + 1]
    /\ ncalls' = ncalls + 1
    /\ UNCHANGED <<trace, threads>>

\* heap[i].on_default(result) on an intermediate: a new accumulator.
IntermediateOnDefault ==
  \E i \in Objs, result \in Results :
    /\ heap[i].kind = "Intermediate"
    /\ ncalls < MaxCalls
    /\ Len(heap) < MaxObjs
    /\ heap' = Append(heap, Intermediate_on_default(heap[i], result))
    /\ chain' = Append(chain, Append(chain[i], OnDefaultCall(result)))
    /\ last' = [op |-> "on_default", recv |-> i, result |-> result,
                new |-> Len(heap) + 1]
    /\ ncalls' = ncalls + 1
    /\ UNCHANGED <<trace, threads>>

\* heap[i].when(label, result) on an accumulator: in place, returns *this.
AccumulatorWhen ==
  \E i \in Objs, label \in Strs, result \in Results :
    /\ heap[i].kind = "Accumulator"
    /\ ncalls < MaxCalls
    /\ heap' = [heap EXCEPT ![i] = when(heap[i], label, result)]
    /\ chain' = [chain EXCEPT ![i] = Append(@, WhenCall(label, result))]
    /\ last' = [op |-> "when", recv |-> i, label |-> label,
                result |-> result, new |-> i]
    /\ ncalls' = ncalls + 1
    /\ UNCHANGED <<trace, threads>>

\* heap[i].on_default(result) on an accumulator: a new accumulator.
AccumulatorOnDefault ==
  \E i \in Objs, result \in Results :
    /\ heap[i].kind = "Accumulator"
    /\ on_default_requires(heap[i])
    /\ ncalls < MaxCalls
    /\ Len(heap) < MaxObjs
    /\ heap' = Append([heap EXCEPT ![i] = on_default_self(heap[i], result)],
                      on_default(heap[i], result))
    /\ chain' = Append(chain, Append(chain[i], OnDefaultCall(result)))
    /\ last' = [op |-> "on_default", recv |-> i, result |-> result,
                new |-> Len(heap) + 1]
    /\ ncalls' = ncalls + 1
    /\ UNCHANGED <<trace, threads>>

\* heap[i].evaluate(param): the call itself.
EvaluateParamOn(i, param) ==
  /\ evaluate_param_requires(heap[i])
  /\ heap' = [heap EXCEPT ![i] = evaluate_param(heap[i], param).self]
  /\ chain' = chain
  /\ last' = [op |-> "evaluate", recv |-> i, has_param |-> TRUE,
              param |-> param, ret |-> evaluate_param(heap[i], param).ret]
  /\ ncalls' = ncalls + 1

\* heap[i].evaluate(): the call itself.
EvaluateOn(i) ==
  /\ evaluate_requires(heap[i])
  /\ heap' = [heap EXCEPT ![i] = evaluate(heap[i]).self]
  /\ chain' = chain
  /\ last' = [op |-> "evaluate", recv |-> i, has_param |-> FALSE,
              param |-> Empty, ret |-> evaluate(heap[i]).ret]
  /\ ncalls' = ncalls + 1

EvaluateParam ==
  \E i \in Objs, param \in Strs :
    /\ ncalls < MaxCalls
    /\ EvaluateParamOn(i, param)
    /\ UNCHANGED <<trace, threads>>

Evaluate ==
  \E i \in Objs :
    /\ ncalls < MaxCalls
    /\ EvaluateOn(i)
    /\ UNCHANGED <<trace, threads>>

\* T c(heap[j]): a new object, copy-constructed.
CopyConstruct ==
  \E j \in Objs :
    /\ ncalls < MaxCalls
    /\ Len(heap) < MaxObjs
    /\ heap' = Append(heap, copy(heap[j]))
    /\ chain' = Append(chain, chain[j])
    /\ last' = [op |-> "copy", src |-> j, new |-> Len(heap) + 1]
    /\ ncalls' = ncalls + 1
    /\ UNCHANGED <<trace, threads>>

\* T c(std::move(heap[j])): a new object, move-constructed.
MoveConstruct ==
  \E j \in Objs :
    /\ ncalls < MaxCalls
    /\ Len(heap) < MaxObjs
    /\ heap' = Append([heap EXCEPT ![j] = moved_from(heap[j])],
                      move(heap[j]))
    /\ chain' = Append([chain EXCEPT ![j] = Append(@, MoveCall)], chain[j])
    /\ last' = [op |-> "move", src |-> j, new |-> Len(heap) + 1]
    /\ ncalls' = ncalls + 1
    /\ UNCHANGED <<trace, threads>>

\* heap[i] = heap[j], the two of one class (i = j included).
CopyAssign ==
  \E i \in Objs, j \in Objs :
    /\ same_class(heap[i], heap[j])
    /\ ncalls < MaxCalls
    /\ heap' = [heap EXCEPT ![i] = copy(heap[j])]
    /\ chain' = [chain EXCEPT ![i] = chain[j]]
    /\ last' = [op |-> "assign", recv |-> i, src |-> j, new |-> i]
    /\ ncalls' = ncalls + 1
    /\ UNCHANGED <<trace, threads>>

\* heap[i] = std::move(heap[j]), the two of one class.
MoveAssign ==
  \E i \in Objs, j \in Objs :
    /\ same_class(heap[i], heap[j])
    /\ ncalls < MaxCalls
    /\ heap' = IF i = j
                 THEN [heap EXCEPT ![i] = self_move_assigned(heap[i])]
                 ELSE [heap EXCEPT ![i] = move(heap[j]),
                                   ![j] = moved_from(heap[j])]
    /\ chain' = IF i = j
                  THEN [chain EXCEPT ![i] = Append(@, SelfMoveCall)]
                  ELSE [chain EXCEPT ![i] = chain[j],
                                     ![j] = Append(@, MoveCall)]
    /\ last' = [op |-> "move_assign", recv |-> i, src |-> j, new |-> i]
    /\ ncalls' = ncalls + 1
    /\ UNCHANGED <<trace, threads>>

Next ==
  \/ Create
  \/ CreateParam
  \/ IntermediateWhen
  \/ IntermediateOnDefault
  \/ AccumulatorWhen
  \/ AccumulatorOnDefault
  \/ EvaluateParam
  \/ Evaluate
  \/ CopyConstruct
  \/ MoveConstruct
  \/ CopyAssign
  \/ MoveAssign

Spec == Init /\ [][Next]_vars

\* ------------------------------------------- what a call chain registered
\* The create call of chain c bound a parameter / the parameter it bound.
ChainHasParam(c) == c[1].has_param

ChainParam(c) == c[1].param

\* The positions of chain c that register label / a default.
WhenAt(c, label) ==
  {k \in 1..Len(c) : c[k].op = "when" /\ c[k].label = label}

DefaultAt(c) == {k \in 1..Len(c) : c[k].op = "on_default"}

Registered(c, label) == WhenAt(c, label) # {}

HasDefault(c) == DefaultAt(c) # {}

\* The result of the first registration of label in chain c.
FirstResult(c, label) ==
  c[CHOOSE k \in WhenAt(c, label) : \A j \in WhenAt(c, label) : k <= j].result

\* The default registered in chain c.
ChainDefault(c) == c[CHOOSE k \in DefaultAt(c) : TRUE].result

\* What the documented lookup gives for chain c and parameter p: the first
\* result registered for p, else the default, else no value; wrapped in an
\* optional when the chain registered no default.
Expected(c, p) ==
  IF Registered(c, p)
    THEN IF HasDefault(c) THEN FirstResult(c, p)
                          ELSE optional(FirstResult(c, p))
    ELSE IF HasDefault(c) THEN ChainDefault(c) ELSE nullopt

\* The chain holds no mark of a move: the builder is as the calls of its
\* chain made it.
Unmoved(c) == \A k \in 1..Len(c) : c[k].op \notin {"move", "self_move"}

\* The positions of chain c that are registrations.
Registrations(c) == {k \in 1..Len(c) : c[k].op \in {"when", "on_default"}}

\* One call of a chain applied to builder b by the code: the intermediate's
\* members on an intermediate, the accumulator's on an accumulator; a mark
\* of a move leaves what the move leaves.
Apply(b, call) ==
  IF call.op = "move" THEN moved_from(b)
  ELSE IF call.op = "self_move" THEN self_move_assigned(b)
  ELSE IF b.kind = "Intermediate"
    THEN IF call.op = "when"
           THEN Intermediate_when(b, call.label, call.result)
           ELSE Intermediate_on_default(b, call.result)
    ELSE IF call.op = "when"
           THEN when(b, call.label, call.result)
           ELSE on_default(b, call.result)

\* The builder the code makes by applying the calls c[k..] to builder b.
RECURSIVE ApplyFrom(_, _, _)
ApplyFrom(b, c, k) ==
  IF k > Len(c) THEN b ELSE ApplyFrom(Apply(b, c[k]), c, k + 1)

\* The builder the create call of a chain returns.
Created(call) ==
  IF call.has_param THEN create_param(call.param) ELSE create_noparam

\* The builder the code makes by the whole chain c.
Built(c) == ApplyFrom(Created(c[1]), c, 2)

\* The builder create().S, for S the registrations of chain c.
LateBound(c) == ApplyFrom(create_noparam, c, 2)

\* ------------------------------------- evaluation of one finished builder
\* The registrations a chain may make / the create calls it may start with.
RegCalls ==
  {WhenCall(l, r) : l \in Strs, r \in Results}
    \cup {OnDefaultCall(r) : r \in Results}

CreateCalls ==
  {CreateCall(FALSE, Empty)} \cup {CreateCall(TRUE, p) : p \in Strs}

\* The legal chains of at most m calls: a create call, then at least one
\* registration, on_default at most once.
ChainsUpTo(m) ==
  {<<c>> \o s : c \in CreateCalls,
                s \in {t \in UNION {[1..n -> RegCalls] : n \in 1..(m - 1)} :
                         Cardinality({k \in DOMAIN t : t[k].op = "on_default"}) <= 1}}

Chains == ChainsUpTo(MaxCalls)

\* The calling program has built one accumulator by a legal chain and holds
\* it; it has not evaluated it yet.
InitEval ==
  \E c \in Chains :
    /\ heap = <<Built(c)>>
    /\ chain = <<c>>
    /\ last = NoCall
    /\ ncalls = Len(c)
    /\ trace = << >>
    /\ threads = << >>

\* heap[i].evaluate(param), recorded.
EvalParamStep ==
  \E i \in Objs, param \in Strs :
    /\ Len(trace) < MaxEvals
    /\ EvaluateParamOn(i, param)
    /\ trace' = Append(trace, last')
    /\ UNCHANGED threads

\* heap[i].evaluate(), recorded.
EvalStep ==
  \E i \in Objs :
    /\ Len(trace) < MaxEvals
    /\ EvaluateOn(i)
    /\ trace' = Append(trace, last')
    /\ UNCHANGED threads

NextEval ==
  \/ EvalParamStep
  \/ EvalStep

SpecEval == InitEval /\ [][NextEval]_vars

\* -------------------------- concurrent evaluation of one finished builder
Threads == 1..NThreads

\* One accumulator, built by a legal chain, is shared by the threads; no
\* thread has called evaluate yet.
InitConc ==
  \E c \in ChainsUpTo(MaxConcCalls) :
    /\ heap = <<Built(c)>>
    /\ chain = <<c>>
    /\ last = NoCall
    /\ ncalls = Len(c)
    /\ trace = << >>
    /\ threads = [t \in Threads |-> [pc |-> "idle"]]

\* Thread t calls heap[1].evaluate(param) and runs it up to the find.
ConcFindParam ==
  \E t \in Threads, param \in Strs :
    /\ threads[t].pc = "idle"
    /\ evaluate_param_requires(heap[1])
    /\ threads' = [threads EXCEPT ![t] =
                     [pc |-> "found", recv |-> 1, has_param |-> TRUE,
                      param |-> param,
                      it |-> evaluate_impl_find(heap[1], param)]]
    /\ UNCHANGED <<heap, chain, last, ncalls, trace>>

\* Thread t calls heap[1].evaluate() and runs it up to the find.
ConcFind ==
  \E t \in Threads :
    /\ threads[t].pc = "idle"
    /\ evaluate_requires(heap[1])
    /\ threads' = [threads EXCEPT ![t] =
                     [pc |-> "found", recv |-> 1, has_param |-> FALSE,
                      param |-> Empty,
                      it |-> evaluate_impl_find(heap[1], heap[1].d_param)]]
    /\ UNCHANGED <<heap, chain, last, ncalls, trace>>

\* Thread t runs the rest of evaluate_impl and returns.  overlapped records
\* whether another thread was inside its call at that moment.
ConcReturn ==
  \E t \in Threads :
    /\ threads[t].pc = "found"
    /\ \E r \in evaluate_impl_return(heap[1], threads[t].it).rets :
         threads' = [threads EXCEPT ![t] =
                       [pc |-> "done", recv |-> 1,
                        has_param |-> threads[t].has_param,
                        param |-> threads[t].param,
                        ret |-> r,
                        overlapped |->
                          \E u \in Threads \ {t} : threads[u].pc = "found"]]
    /\ heap' = [heap EXCEPT ![1] =
                  evaluate_impl_return(heap[1], threads[t].it).self]
    /\ UNCHANGED <<chain, last, ncalls, trace>>

NextConc ==
  \/ ConcFindParam
  \/ ConcFind
  \/ ConcReturn

SpecConc == InitConc /\ [][NextConc]_vars

\* The last call was evaluate(param) / evaluate().
LastEvaluateParam == last.op = "evaluate" /\ last.has_param

LastEvaluate == last.op = "evaluate" /\ ~last.has_param

\* ------------------------------------------------------------------ claims

\* C1: on a builder made with create(), evaluate(param) with param equal to
\* a registered label returns the result registered for that label (wrapped
\* as present when the chain has no default), also when a default is
\* registered: a match takes precedence over the default.
C1_MatchReturnsMapped ==
  (/\ LastEvaluateParam
   /\ Unmoved(chain[last.recv])
   /\ Registered(chain[last.recv], last.param))
    => /\ ~ChainHasParam(chain[last.recv])
       /\ last.ret =
            IF HasDefault(chain[last.recv])
              THEN FirstResult(chain[last.recv], last.param)
              ELSE optional(FirstResult(chain[last.recv], last.param))

\* C1 witness: evaluate(param) hit a label on a builder whose default is a
\* different value from the label's result.
C1_Witness ==
  /\ LastEvaluateParam
  /\ Registered(chain[last.recv], last.param)
  /\ HasDefault(chain[last.recv])
  /\ ChainDefault(chain[last.recv]) # FirstResult(chain[last.recv], last.param)
  /\ last.ret = FirstResult(chain[last.recv], last.param)

\* C2: on a builder made with create(), evaluate(param) with param equal to
\* no registered label returns the default d if on_default(d) was called
\* anywhere in the chain, and the absent value otherwise.
C2_MissReturnsDefaultOrAbsent ==
  (/\ LastEvaluateParam
   /\ Unmoved(chain[last.recv])
   /\ ~Registered(chain[last.recv], last.param))
    => /\ ~ChainHasParam(chain[last.recv])
       /\ last.ret =
            IF HasDefault(chain[last.recv])
              THEN ChainDefault(chain[last.recv])
              ELSE nullopt

\* C2 witness: evaluate(param) missed on a builder whose chain starts with
\* on_default(1) and then registers a case.
C2_Witness ==
  /\ LastEvaluateParam
  /\ ~Registered(chain[last.recv], last.param)
  /\ Len(chain[last.recv]) >= 3
  /\ chain[last.recv][2] = OnDefaultCall(1)
  /\ chain[last.recv][3].op = "when"
  /\ last.ret = 1

\* C3 (the claim as stated; the code violates it): after create(p) and any
\* legal sequence of when/on_default calls, the accumulator holds p as its
\* parameter, and evaluate() returns what the lookup of p gives: the first
\* result registered for p, else the default, else no value.
C3_ParamHeldAndLookedUp ==
  /\ \A i \in Objs :
       (/\ heap[i].kind = "Accumulator"
        /\ ChainHasParam(chain[i])
        /\ Unmoved(chain[i]))
         => heap[i].d_param = ChainParam(chain[i])
  /\ (LastEvaluate /\ Unmoved(chain[last.recv]))
       => last.ret = Expected(chain[last.recv], ChainParam(chain[last.recv]))

\* C4 (the claim as stated; the code violates it): for every parameter p and
\* every legal sequence S of registrations, create(p).S.evaluate() returns
\* the same value as create().S.evaluate(p).
C4_EarlyEqualsLate ==
  (LastEvaluate /\ Unmoved(chain[last.recv]))
    => last.ret =
         evaluate_param(LateBound(chain[last.recv]),
                        ChainParam(chain[last.recv])).ret

\* C5: at most one default is ever registered on a builder: on_default is
\* applied only to builders whose default-bound flag is false, the builder
\* it returns has the flag true, the flag is true exactly of the
\* accumulators whose chain registered a default, and no call resets a flag
\* that is true.
C5_AtMostOneDefault ==
  /\ [](/\ \A i \in Objs :
             /\ Cardinality(DefaultAt(chain[i])) <= 1
             /\ heap[i].kind = "Accumulator"
                  => heap[i].default_given = HasDefault(chain[i])
        /\ last.op = "on_default"
             => /\ heap[last.new].default_given
                /\ heap[last.recv].kind = "Accumulator"
                     => ~heap[last.recv].default_given)
  /\ [][\A i \in Objs :
          (heap[i].kind = "Accumulator" /\ heap[i].default_given)
            => heap'[i].default_given]_vars

\* C5 witness: on_default was applied to an accumulator that has a case, and
\* a case was then registered on the accumulator it returned.
C5_Witness ==
  \E i \in Objs :
    /\ Len(chain[i]) = 4
    /\ chain[i][2].op = "when"
    /\ chain[i][3].op = "on_default"
    /\ chain[i][4].op = "when"
    /\ heap[i].default_given
    /\ last.op = "when"
    /\ last.recv = i

\* C6: every evaluate call is preceded by at least one when or on_default
\* call of its chain, and neither evaluate overload is enabled on the
\* intermediate that create()/create(p) returns.
C6_EvaluateAfterRegistration ==
  /\ last.op = "evaluate"
       => /\ heap[last.recv].kind = "Accumulator"
          /\ Registrations(chain[last.recv]) # {}
  /\ \A i \in Objs :
       Registrations(chain[i]) = {}
         => /\ ~ENABLED EvaluateOn(i)
            /\ ~ENABLED (\E p \in Strs : EvaluateParamOn(i, p))

\* C6 witness: evaluate(param) was called on a builder with exactly one
\* registration while an intermediate exists.
C6_Witness ==
  /\ LastEvaluateParam
  /\ Len(chain[last.recv]) = 2
  /\ \E i \in Objs : heap[i].kind = "Intermediate"

\* C7: the parameter-bound flag set by create()/create(p) is preserved by
\* every when and on_default, and on every accumulator exactly one of
\* evaluate() (flag true) and evaluate(param) (flag false) is enabled; the
\* parameter of an evaluation is so supplied exactly once.
C7_ParamFlagAndOverloads ==
  /\ \A i \in Objs :
       /\ heap[i].param_given = ChainHasParam(chain[i])
       /\ heap[i].kind = "Accumulator"
            => /\ (ENABLED EvaluateOn(i)) <=> heap[i].param_given
               /\ (ENABLED (\E p \in Strs : EvaluateParamOn(i, p)))
                    <=> ~heap[i].param_given
  /\ last.op = "evaluate"
       => last.has_param = ~ChainHasParam(chain[last.recv])

\* C7 witness: evaluate() was called on a builder made by create(p),
\* on_default and when, which still carries the flag create(p) set.
C7_Witness ==
  /\ LastEvaluate
  /\ Len(chain[last.recv]) = 3
  /\ chain[last.recv][1].has_param
  /\ chain[last.recv][2].op = "on_default"
  /\ chain[last.recv][3].op = "when"
  /\ heap[last.recv].param_given

\* The parameter an evaluate call is to look up: its argument, or the
\* parameter given to create.
LookupParam ==
  IF last.has_param THEN last.param ELSE ChainParam(chain[last.recv])

\* The last call was an evaluate that returned the absent value.
ReturnedAbsent ==
  /\ last.op = "evaluate"
  /\ ~heap[last.recv].default_given
  /\ last.ret = nullopt

\* C8: evaluate returns the absent value if and only if the builder has no
\* default and the lookup parameter matches no registered label; a builder
\* on which on_default was called never returns it, for either overload.
C8_AbsentIffNoDefaultAndMiss ==
  (last.op = "evaluate" /\ Unmoved(chain[last.recv]))
    => /\ ReturnedAbsent <=> (/\ ~HasDefault(chain[last.recv])
                              /\ ~Registered(chain[last.recv], LookupParam))
       /\ HasDefault(chain[last.recv]) => ~ReturnedAbsent

\* C8 witness: evaluate() on a builder made by create(p) without a default
\* returned the absent value, p being none of its two labels.
C8_Witness ==
  /\ LastEvaluate
  /\ ReturnedAbsent
  /\ Len(chain[last.recv]) = 3
  /\ chain[last.recv][2].op = "when"
  /\ chain[last.recv][3].op = "when"
  /\ chain[last.recv][2].label # chain[last.recv][3].label

\* C9: when a label is registered more than once in a chain, the value of
\* its first registration is the one kept and returned on match: the
\* mapping of every accumulator holds exactly the registered labels, each
\* with the result of its first registration, and an evaluate call whose
\* lookup matches returns that result.
C9_FirstRegistrationWins ==
  /\ \A i \in Objs :
       (heap[i].kind = "Accumulator" /\ Unmoved(chain[i]))
         => /\ DOMAIN heap[i].d_mapping
                 = {l \in Strs : Registered(chain[i], l)}
            /\ \A l \in DOMAIN heap[i].d_mapping :
                 heap[i].d_mapping[l] = FirstResult(chain[i], l)
  /\ \A l \in Strs :
       (/\ last.op = "evaluate"
        /\ Unmoved(chain[last.recv])
        /\ l = (IF last.has_param THEN last.param
                                  ELSE heap[last.recv].d_param)
        /\ Registered(chain[last.recv], l))
         => last.ret = IF heap[last.recv].default_given
                         THEN FirstResult(chain[last.recv], l)
                         ELSE optional(FirstResult(chain[last.recv], l))

\* C9 witness: a label registered by the intermediate's when and registered
\* again, with another result, by the accumulator's when was matched by
\* evaluate(param), which returned the first result.
C9_Witness ==
  /\ LastEvaluateParam
  /\ Len(chain[last.recv]) = 3
  /\ chain[last.recv][2].op = "when"
  /\ chain[last.recv][3].op = "when"
  /\ chain[last.recv][2].label = chain[last.recv][3].label
  /\ chain[last.recv][2].result # chain[last.recv][3].result
  /\ last.param = chain[last.recv][2].label
  /\ last.ret = optional(chain[last.recv][2].result)

\* What the evaluate call e returns as the first call on its builder, the
\* builder being as its chain built it.
FirstCallRet(e) ==
  IF e.has_param
    THEN evaluate_param(Built(chain[e.recv]), e.param).ret
    ELSE evaluate(Built(chain[e.recv])).ret

\* C10: evaluate is read-only: after any sequence of evaluate calls the
\* mapping, default and parameter of the builder are as its chain built
\* them, every call returned what it returns as the first call, and two
\* calls with the same parameter returned the same result.
C10_EvaluateReadOnly ==
  /\ \A i \in Objs : heap[i] = Built(chain[i])
  /\ \A k \in 1..Len(trace) : trace[k].ret = FirstCallRet(trace[k])
  /\ \A j, k \in 1..Len(trace) :
       (trace[j].recv = trace[k].recv /\ trace[j].param = trace[k].param)
         => trace[j].ret = trace[k].ret

\* C10 witness: evaluate(param) was called twice with the same parameter,
\* which matches a label, on a builder that also has a default.
C10_Witness ==
  /\ Len(trace) = 2
  /\ trace[1].has_param
  /\ trace[1].param = trace[2].param
  /\ trace[1].ret = trace[2].ret
  /\ Registered(chain[1], trace[1].param)
  /\ HasDefault(chain[1])
  /\ ChainDefault(chain[1]) # trace[2].ret

\* C11: a builder on which only on_default(d) was called and no case was
\* registered evaluates to d for every parameter, whether the parameter was
\* given to create (evaluate()) or is given to evaluate(param).
C11_DefaultOnly ==
  (/\ last.op = "evaluate"
   /\ Len(chain[last.recv]) = 2
   /\ chain[last.recv][2].op = "on_default")
    => last.ret = chain[last.recv][2].result

\* C11 witness: create(p).on_default(1).evaluate() with a non-empty p
\* returned 1.
C11_Witness ==
  /\ LastEvaluate
  /\ Len(chain[last.recv]) = 2
  /\ chain[last.recv][2] = OnDefaultCall(1)
  /\ ChainParam(chain[last.recv]) = "a"
  /\ last.ret = 1

\* The step is a call of on_default / of when on an accumulator.
AccumulatorOnDefaultStep ==
  /\ ncalls' = ncalls + 1
  /\ last'.op = "on_default"
  /\ heap[last'.recv].kind = "Accumulator"

AccumulatorWhenStep ==
  /\ ncalls' = ncalls + 1
  /\ last'.op = "when"
  /\ heap[last'.recv].kind = "Accumulator"

\* C12: on_default(d) on an accumulator without a default returns an
\* accumulator whose case mapping and bound parameter (and parameter flag)
\* are those of the receiver and whose default is d: only the default and
\* the default-bound flag differ.
C12_OnDefaultFrame ==
  [][AccumulatorOnDefaultStep
       => /\ ~heap[last'.recv].default_given
          /\ heap'[last'.new] =
               [heap[last'.recv] EXCEPT !.default_given = TRUE,
                                        !.d_default_outcome = last'.result]]_vars

\* C12 witness: on_default(1) was called on an accumulator that holds a
\* case and a non-empty creation parameter.
C12_Witness ==
  /\ last.op = "on_default"
  /\ last.result = 1
  /\ heap[last.recv].kind = "Accumulator"
  /\ heap[last.recv].d_param = "a"
  /\ heap[last.recv].d_mapping # EmptyMap
  /\ heap[last.new].d_mapping = heap[last.recv].d_mapping
  /\ heap[last.new].d_param = "a"

\* Every accumulator is an accumulator after the step, with every entry of
\* its mapping: no label removed, no registered value changed.
EntriesKept ==
  \A i \in Objs :
    heap[i].kind = "Accumulator"
      => /\ heap'[i].kind = "Accumulator"
         /\ \A l \in DOMAIN heap[i].d_mapping :
              /\ l \in DOMAIN heap'[i].d_mapping
              /\ heap'[i].d_mapping[l] = heap[i].d_mapping[l]

\* A when on an accumulator constructs no object, leaves its receiver its
\* default, default-bound flag, parameter-bound flag and bound parameter,
\* and adds to the receiver's mapping at most the entry for its label.
WhenOnlyGrows ==
  AccumulatorWhenStep
    => /\ Len(heap') = Len(heap)
       /\ heap'[last'.recv].kind = "Accumulator"
       /\ heap'[last'.recv].default_given = heap[last'.recv].default_given
       /\ heap'[last'.recv].d_default_outcome
            = heap[last'.recv].d_default_outcome
       /\ heap'[last'.recv].param_given = heap[last'.recv].param_given
       /\ heap'[last'.recv].d_param = heap[last'.recv].d_param
       /\ DOMAIN heap'[last'.recv].d_mapping
            = DOMAIN heap[last'.recv].d_mapping \cup {last'.label}

\* The step is one of the builder's operations: create, when, on_default or
\* evaluate (and no copy, move or assignment of a builder object).
OperationStep ==
  last'.op \in {"create", "when", "on_default", "evaluate"}

\* C13: when(label, result) on an accumulator only grows the case mapping:
\* it leaves the default, the default-bound flag, the bound parameter and
\* every registered entry unchanged, so that across any sequence of the
\* builder's operations (create, when, on_default, evaluate) no label is
\* ever removed from an accumulator and no registered value is ever changed.
C13_WhenOnlyGrows ==
  [][WhenOnlyGrows /\ (OperationStep => EntriesKept)]_vars

\* C13 witness: when added a second label to an accumulator that has a
\* default and a creation parameter.
C13_Witness ==
  /\ last.op = "when"
  /\ last.new = last.recv
  /\ heap[last.recv].default_given
  /\ heap[last.recv].param_given
  /\ Cardinality(DOMAIN heap[last.recv].d_mapping) = 2
  /\ Len(chain[last.recv]) = 4
  /\ chain[last.recv][4] = WhenCall(last.label, last.result)

\* C14: the first registration on an intermediate initialises the
\* accumulator exactly: when(label, result) yields the mapping
\* {label: result}, no default, and the intermediate's parameter binding
\* (flag and value, the value given to create); on_default(result) yields
\* an empty mapping with default equal to result.
C14_FirstRegistration ==
  /\ (last.op = "when" /\ heap[last.recv].kind = "Intermediate")
       => /\ heap[last.new] =
               [kind              |-> "Accumulator",
                param_given       |-> heap[last.recv].param_given,
                default_given     |-> FALSE,
                d_mapping         |-> [l \in {last.label} |-> last.result],
                d_param           |-> heap[last.recv].d_param,
                d_default_outcome |-> Empty]
          /\ heap[last.new].param_given = ChainHasParam(chain[last.recv])
          /\ Unmoved(chain[last.recv])
               => heap[last.new].d_param = ChainParam(chain[last.recv])
  /\ (last.op = "on_default" /\ heap[last.recv].kind = "Intermediate")
       => /\ heap[last.new].kind = "Accumulator"
          /\ heap[last.new].d_mapping = EmptyMap
          /\ heap[last.new].default_given
          /\ heap[last.new].d_default_outcome = last.result
          /\ heap[last.new].param_given = heap[last.recv].param_given

\* C14 witness: when("b", 1) was called on the intermediate of create("a").
C14_Witness ==
  /\ last.op = "when"
  /\ heap[last.recv].kind = "Intermediate"
  /\ heap[last.recv].d_param = "a"
  /\ last.label = "b"
  /\ last.result = 1
  /\ heap[last.new].d_param = "a"

\* The positions of the when calls of chain c, and whether their labels are
\* pairwise distinct.
WhenPositions(c) == {k \in 1..Len(c) : c[k].op = "when"}

DistinctLabels(c) ==
  \A j, k \in WhenPositions(c) : j # k => c[j].label # c[k].label

\* The permutations of a set of positions.
Permutations(S) == {f \in [S -> S] : \A x, y \in S : f[x] = f[y] => x = y}

\* Chain c with its when calls permuted by f (the create call and a call of
\* on_default stay where they are).
Permuted(c, f) ==
  [k \in 1..Len(c) |-> IF k \in WhenPositions(c) THEN c[f[k]] ELSE c[k]]

\* What the evaluate call e returns on builder b.
RetOn(b, e) ==
  IF e.has_param THEN evaluate_param(b, e.param).ret ELSE evaluate(b).ret

\* C15: insertion order is irrelevant for lookup: for a chain whose when
\* calls have pairwise distinct labels, the builder made by any permutation
\* of the when calls returns, for every evaluate call made and for every
\* parameter, what the builder of the chain itself returns.
C15_OrderIrrelevant ==
  \A i \in Objs :
    DistinctLabels(chain[i])
      => \A f \in Permutations(WhenPositions(chain[i])) :
           /\ \A k \in 1..Len(trace) :
                trace[k].recv = i
                  => trace[k].ret = RetOn(Built(Permuted(chain[i], f)), trace[k])
           /\ \A p \in Strs :
                evaluate_impl(Built(Permuted(chain[i], f)), p).ret
                  = evaluate_impl(heap[i], p).ret

\* C15 witness: evaluate("b") returned 1 on the builder of
\* create().when("a", 0).when("b", 1), whose other order is
\* create().when("b", 1).when("a", 0).
C15_Witness ==
  /\ chain[1] = <<CreateCall(FALSE, Empty), WhenCall("a", 0), WhenCall("b", 1)>>
  /\ Len(trace) >= 1
  /\ trace[1].param = "b"
  /\ trace[1].ret = optional(1)

\* The step is a type-changing transition: when or on_default on an
\* intermediate, or on_default on an accumulator.
TypeChangingStep ==
  /\ ncalls' = ncalls + 1
  /\ \/ last'.op = "on_default"
     \/ last'.op = "when" /\ heap[last'.recv].kind = "Intermediate"

\* C16: type-changing transitions reconstruct rather than alias: they leave
\* the receiver (and every other builder) as it was and return a builder
\* that is a new object; and a when on an accumulator changes no builder
\* but its receiver, so that a later when on the receiver of a transition
\* does not change what the returned builder evaluates to, nor a later when
\* on the returned builder the receiver.
C16_ReconstructNotAlias ==
  [][/\ TypeChangingStep
          => /\ last'.new = Len(heap) + 1
             /\ Len(heap') = Len(heap) + 1
             /\ \A j \in Objs : heap'[j] = heap[j]
     /\ AccumulatorWhenStep
          => \A j \in Objs \ {last'.recv} :
               /\ heap'[j] = heap[j]
               /\ heap[j].kind = "Accumulator"
                    => \A p \in Strs \cup {heap[j].d_param} :
                         evaluate_impl(heap'[j], p).ret
                           = evaluate_impl(heap[j], p).ret]_vars

\* C16 witness: on_default on accumulator i returned accumulator j, and a
\* later when on i registered a label that j does not hold.
C16_Witness ==
  \E i, j \in Objs :
    /\ i # j
    /\ last.op = "when"
    /\ last.recv = i
    /\ Len(chain[i]) = 3
    /\ Len(chain[j]) = 3
    /\ chain[j][2] = chain[i][2]
    /\ chain[j][2].op = "when"
    /\ chain[j][3].op = "on_default"
    /\ find(heap[i].d_mapping, last.label)
    /\ ~find(heap[j].d_mapping, last.label)

\* The key the last evaluate call looked up.
LookedUp == IF last.has_param THEN last.param ELSE heap[last.recv].d_param

\* C17: when on an accumulator mutates the receiver in place and returns
\* that same builder: the call returns its receiver, which then holds
\* result for a label not registered before, and an evaluate on the
\* receiver itself that looks up a label so registered last returns result.
C17_WhenInPlace ==
  /\ [][AccumulatorWhenStep
          => /\ last'.new = last'.recv
             /\ ~find(heap[last'.recv].d_mapping, last'.label)
                  => /\ find(heap'[last'.recv].d_mapping, last'.label)
                     /\ heap'[last'.recv].d_mapping[last'.label]
                          = last'.result]_vars
  /\ [](\A n \in 3..MaxCalls + 1 :
          (/\ last.op = "evaluate"
           /\ Len(chain[last.recv]) = n
           /\ chain[last.recv][n].op = "when"
           /\ chain[last.recv][n].label = LookedUp
           /\ ~Registered(SubSeq(chain[last.recv], 1, n - 1), LookedUp))
            => last.ret = IF heap[last.recv].default_given
                            THEN chain[last.recv][n].result
                            ELSE optional(chain[last.recv][n].result))

\* C17 witness: after create().when("a", 0), when("b", 1) was called on the
\* accumulator and evaluate("b") on that accumulator returned 1.
C17_Witness ==
  /\ LastEvaluateParam
  /\ chain[last.recv] =
       <<CreateCall(FALSE, Empty), WhenCall("a", 0), WhenCall("b", 1)>>
  /\ last.param = "b"
  /\ last.ret = optional(1)

\* C18: concurrent readers are safe: when threads interleave evaluate calls
\* on one accumulator and no when/on_default runs on it, in every
\* interleaving the mapping, default and parameter stay as the chain built
\* them, no thread holds an iterator that was invalidated or whose entry is
\* gone, and every call that has returned returned what the same call
\* returns run alone.
C18_ConcurrentReaders ==
  /\ heap[1] = Built(chain[1])
  /\ \A t \in Threads :
       /\ (threads[t].pc = "found" /\ threads[t].it.key # End.key)
            => /\ threads[t].it.valid
               /\ find(heap[1].d_mapping, threads[t].it.key)
       /\ threads[t].pc = "done"
            => threads[t].ret = RetOn(Built(chain[1]), threads[t])

\* C18 witness: two threads have returned from evaluate on a builder with a
\* case and a default, one with the case's result and one with the default,
\* each having returned while the other was inside its call or after it.
C18_Witness ==
  /\ Len(chain[1]) = 3
  /\ HasDefault(chain[1])
  /\ threads[1].pc = "done"
  /\ threads[2].pc = "done"
  /\ threads[1].overlapped
  /\ threads[1].has_param
  /\ Registered(chain[1], threads[1].param)
  /\ ~Registered(chain[1], threads[2].param)
  /\ threads[1].ret # threads[2].ret

====
